---- MODULE Spec2Model ----
(***************************************************************************)
(* HyphoteSys: the agent pipeline (src/agents.py), the session/project     *)
(* store (src/session_manager.py, src/core.py) and the two front ends'     *)
(* run-agent dispatch (src/cli_terminal.py, src/main.py).                  *)
(*                                                                         *)
(* Conventions                                                             *)
(*  - A Python dict is a TLA+ function with a string domain; a list is a   *)
(*    sequence; a missing key is a key outside the DOMAIN.                 *)
(*  - Confidence is kept in hundredths (0.92 is 92), percentages in tenths *)
(*    of a percent (14.3 is 143).                                          *)
(*  - The clock has the resolution of the second: datetime.now() is `now`. *)
(*  - The replies of the LLM and of the literature search service are the  *)
(*    environment's choice and are parameters of the agents.               *)
(***************************************************************************)
EXTENDS Integers, Sequences, FiniteSets, TLC

VARIABLES
    sessions,            \* SessionManager.sessions: session id -> session dict
    sessions_file,       \* the contents of sessions.json
    projects,            \* the files of projects/: project id -> project dict
    now,                 \* the wall clock, in seconds
    uuids,               \* how many uuid4 identifiers have been drawn
    current_session_id,  \* the front end's active session (None: no session)
    frontend,            \* which front end drives the store: "cli" or "dashboard"
    last,                \* what the last run-agent command executed and showed
    other_sessions,      \* self.sessions of a second SessionManager on the same files
    shared,              \* which sessions of self.sessions hold one and the same object
    call                 \* the call on the store made by the last step, with its outcome

vars == <<sessions, sessions_file, projects, now, uuids, current_session_id, frontend, last,
          other_sessions, shared, call>>

-----------------------------------------------------------------------------
(* Bounds of the model *)

MaxSessions == 2
MaxClock == 1
MaxPapers == 1
MaxEntries == 6

-----------------------------------------------------------------------------
(* Python values *)

EmptyDict == [k \in {} |-> 0]

None == [none |-> TRUE]

Get(d, k, default) == IF k \in DOMAIN d THEN d[k] ELSE default

Put(d, k, v) == [x \in (DOMAIN d) \cup {k} |-> IF x = k THEN v ELSE d[x]]

\* Python truthiness of an optional dict: None and {} are false
Falsy(x) == x = None \/ DOMAIN x = {}

Min(a, b) == IF a <= b THEN a ELSE b

\* round(n / total * 100, 1), in tenths of a percent
PercentTenths(n, total) == (2 * n * 1000 + total) \div (2 * total)

-----------------------------------------------------------------------------
(* core.py: the output envelope and the session memory *)

\* an envelope that keeps the confidence as a percentage of a percentage
RichOutput_Percent(agent, result, confidence, sources, warnings, metadata, t) ==
    [agent |-> agent, result |-> result, confidence |-> confidence * 100,
     sources |-> sources, warnings |-> warnings, metadata |-> metadata,
     timestamp |-> t]

\* RichOutput(...): __post_init__ stamps the construction time
RichOutput(agent, result, confidence, sources, warnings, metadata, t) ==
    [agent |-> agent, result |-> result, confidence |-> confidence,
     sources |-> sources, warnings |-> warnings, metadata |-> metadata,
     timestamp |-> t]

\* dataclasses.asdict of a RichOutput
AsDict(o) ==
    [agent |-> o.agent, result |-> o.result, confidence |-> o.confidence,
     sources |-> o.sources, warnings |-> o.warnings, metadata |-> o.metadata,
     timestamp |-> o.timestamp]

\* the default of the timestamp field: None
NoTimestamp == -1

\* a decoder that stamps the time of decoding in every case
FromDict_Restamped(result_data, t) ==
    [agent |-> result_data.agent, result |-> result_data.result,
     confidence |-> result_data.confidence, sources |-> result_data.sources,
     warnings |-> result_data.warnings, metadata |-> Get(result_data, "metadata", None),
     timestamp |-> t]

\* RichOutput(**result_data): the record's keys are the constructor's
\* arguments, and __post_init__ stamps the time only when there is no timestamp
FromDict(result_data, t) ==
    LET timestamp == Get(result_data, "timestamp", NoTimestamp)
    IN  [agent |-> result_data.agent, result |-> result_data.result,
         confidence |-> result_data.confidence, sources |-> result_data.sources,
         warnings |-> result_data.warnings, metadata |-> Get(result_data, "metadata", None),
         timestamp |-> IF timestamp = NoTimestamp THEN t ELSE timestamp]

\* asdict(SessionMemory()); last_update = "" (earlier than every timestamp) is -1
SessionMemory ==
    [focus |-> "", keywords |-> <<>>, variables |-> EmptyDict,
     paper_count |-> 0, last_update |-> -1, agent_progress |-> EmptyDict]

\* asdict(ResearcherProfile.load()): the profile is not edited by the pipeline
ResearcherProfile == [name |-> "", email |-> "", affiliation |-> "", research_focus |-> ""]

-----------------------------------------------------------------------------
(* The environment: replies of the LLM and of the search service *)

\* an LLM call either raises (unreachable, bad key, non-JSON text) or
\* returns a JSON object
LLMError == [ok |-> FALSE, json |-> EmptyDict]

LLMReply(json) == [ok |-> TRUE, json |-> json]

ThesisJSON ==
    [keywords |-> <<"compound X", "pathway Y">>,
     variables |-> [independent |-> <<"compound X">>, dependent |-> <<"pathway Y">>,
                    control |-> <<>>],
     summary |-> "inhibition of pathway Y by compound X",
     considerations |-> <<"dose range not stated">>]

ThesisLLM == {LLMError, LLMReply(ThesisJSON)}

TrendJSON ==
    [patterns |-> <<"pattern1">>, contradictions |-> <<"contradiction1">>,
     gaps |-> <<"gap1">>, common_variables |-> <<"variable1">>]

TrendLLM == {LLMError, LLMReply(TrendJSON)}

HypothesisJSON ==
    [hypotheses |-> <<[statement |-> "Hypothesis statement", rationale |-> "Scientific reasoning",
                       experiments |-> <<"experiment1">>, feasibility |-> 80]>>,
     recommendations |-> <<"recommendation1">>]

HypothesisLLM == {LLMError, LLMReply(HypothesisJSON)}

\* the reader's LLM reply to one paper: an error, the empty object, or the
\* summary the prompt asks for (which repeats the paper's title)
ReaderLLM == {"error", "empty", "summary"}

\* one <entry> of the search response; a field the entry lacks is a missing key
Entry(i) ==
    [id |-> "http://arxiv.org/abs/" \o ToString(i), title |-> "paper-" \o ToString(i),
     summary |-> "abstract-" \o ToString(i)]

WellFormed(n) == [i \in 1..n |-> Entry(i)]

\* requests.get raises (or raise_for_status does), or answers with entries
NetError == [ok |-> FALSE, entries |-> <<>>]

NetReply(entries) == [ok |-> TRUE, entries |-> entries]

SearchNet == {NetError} \cup {NetReply(WellFormed(n)) : n \in 0..MaxPapers}

-----------------------------------------------------------------------------
(* agents.py.  An agent's execute is modelled by its returned RichOutput    *)
(* (`out`) together with the calls it made on the way: llm_calls and        *)
(* llm_errors (LLM requests issued, and how many of them raised) and        *)
(* net_calls (literature-search requests issued).                           *)

Ran(out, llm_calls, llm_errors, net_calls) ==
    [out |-> out, llm_calls |-> llm_calls, llm_errors |-> llm_errors, net_calls |-> net_calls]

\* SessionManager.get_agent_result, as the agents call it on the store
GetAgentResult(store, session_id, agent_name) ==
    IF session_id \in DOMAIN store
    THEN Get(store[session_id].agent_results, agent_name, None)
    ELSE None

\* ProjectManager.load_project (SessionManager.load_project delegates to it)
LoadProject(files, project_id) ==
    IF project_id \in DOMAIN files THEN files[project_id] ELSE None

ThesisExecute(research_question, llm, t) ==
    IF llm.ok
    THEN Ran(RichOutput("ThesisAgent", "Successfully extracted research variables and keywords",
                        92, <<"OpenAI analysis">>, Get(llm.json, "considerations", <<>>),
                        llm.json, t),
             1, 0, 0)
    ELSE Ran(RichOutput("ThesisAgent", "Error analyzing thesis", 0, <<>>,
                        <<"Analysis failed - check OpenAI API key">>,
                        [error |-> "exception"], t),
             1, 1, 0)

\* _simulate_pdf_parsing never raises: every path is parsed
ParsedFiles(file_paths) == [i \in 1..Len(file_paths) |-> [filename |-> file_paths[i]]]

FileExecute(file_paths, t) ==
    LET parsed_files == ParsedFiles(file_paths)
    IN  Ran(RichOutput("FileAgent", "Successfully parsed files",
                       IF parsed_files # <<>> THEN 95 ELSE 10,
                       [i \in 1..Len(parsed_files) |-> parsed_files[i].filename],
                       <<>>, [parsed_files |-> parsed_files], t),
            0, 0, 0)

\* _extract_authors: the entries of the model carry no <author> section
ExtractAuthors(entry) == Get(entry, "authors", <<>>)

\* id_text.split('/')[-1], for the identifiers of the model's entries
LastSegment(id_text) ==
    LET numbers == {i \in 1..(MaxEntries + MaxPapers) : id_text = Entry(i).id}
    IN  IF numbers # {} THEN ToString(CHOOSE i \in numbers : TRUE) ELSE id_text

\* the dict appended for an entry that has its <id>, <title> and <summary>
Paper(entry) ==
    [id |-> LastSegment(entry.id), title |-> entry.title, abstract |-> entry.summary,
     url |-> entry.id, authors |-> ExtractAuthors(entry)]

RECURSIVE ParseArxivXml_StopsAtMalformed(_)
\* a parser that gives up at the first entry lacking a field
ParseArxivXml_StopsAtMalformed(entries) ==
    IF entries = <<>> THEN <<>>
    ELSE LET entry == Head(entries)
         IN  IF {"id", "title", "summary"} \subseteq DOMAIN entry
             THEN <<Paper(entry)>> \o ParseArxivXml_StopsAtMalformed(Tail(entries))
             ELSE <<>>

RECURSIVE ParseArxivXml(_)
\* _parse_arxiv_xml: an entry in which one of the three tags is not found is
\* passed over
ParseArxivXml(entries) ==
    IF entries = <<>> THEN <<>>
    ELSE LET entry == Head(entries)
         IN  (IF {"id", "title", "summary"} \subseteq DOMAIN entry
              THEN <<Paper(entry)>>
              ELSE <<>>)
             \o ParseArxivXml(Tail(entries))

\* SearchAgent.execute with _search_arxiv: the request is issued whatever the keywords
SearchExecute(keywords, net, t) ==
    IF net.ok
    THEN LET papers == ParseArxivXml(net.entries)
         IN  Ran(RichOutput("SearchAgent", "Found relevant papers from ArXiv",
                            IF papers # <<>> THEN 90 ELSE 30,
                            [i \in 1..Len(papers) |-> papers[i].url],
                            IF papers # <<>> THEN <<>> ELSE <<"No papers found for search terms">>,
                            [papers |-> papers, search_terms |-> keywords], t),
                 0, 0, 1)
    ELSE Ran(RichOutput("SearchAgent", "Error searching ArXiv", 0, <<>>,
                        <<"ArXiv search failed">>,
                        [error |-> "exception", search_terms |-> keywords], t),
             0, 0, 1)

\* ReaderAgent._summarize_paper: the LLM's JSON, or the stub when the call raises
SummarizePaper(paper, llm) ==
    CASE llm = "summary" ->
            [title |-> paper.title, authors |-> Get(paper, "authors", <<>>),
             key_findings |-> <<"finding1">>, methodology |-> "Brief methodology",
             relevance |-> 80]
      [] llm = "empty" -> EmptyDict
      [] OTHER ->
            [title |-> paper.title, authors |-> Get(paper, "authors", <<>>),
             key_findings |-> <<"Analysis pending">>, methodology |-> "Not analyzed",
             relevance |-> 50]

ReaderLimit == 3

\* a plausible slip: the prerequisite test of ReaderAgent.execute left out
NoPapersAvailable_Unchecked(search_result) == FALSE

\* a test that asks only whether the search agent has run
NoPapersAvailable_ResultOnly(search_result) == Falsy(search_result)

\* `not search_result or not search_result.get('metadata', {}).get('papers')`
NoPapersAvailable(search_result) ==
    Falsy(search_result) \/ Get(Get(search_result, "metadata", EmptyDict), "papers", <<>>) = <<>>

\* llms[i] is the LLM's reply to the i-th paper
ReaderExecute(project_id, store, llms, t) ==
    LET search_result == GetAgentResult(store, project_id, "search")
        papers == Get(Get(search_result, "metadata", EmptyDict), "papers", <<>>)
        first == SubSeq(papers, 1, Min(ReaderLimit, Len(papers)))
        summaries == [i \in 1..Len(first) |-> SummarizePaper(first[i], llms[i])]
        errors == Cardinality({i \in 1..Len(first) : llms[i] = "error"})
    IN  IF NoPapersAvailable(search_result)
        THEN Ran(RichOutput("ReaderAgent", "No papers available to summarize", 0, <<>>,
                            <<"Run search agent first">>, EmptyDict, t),
                 0, 0, 0)
        ELSE IF \E i \in 1..Len(summaries) : "title" \notin DOMAIN summaries[i]
        THEN \* s["title"] raises KeyError, caught by execute
             Ran(RichOutput("ReaderAgent", "Error summarizing papers", 0, <<>>,
                            <<"Summarization failed">>, [error |-> "exception"], t),
                 Len(first), errors, 0)
        ELSE Ran(RichOutput("ReaderAgent", "Summarized papers", 85,
                            [i \in 1..Len(summaries) |-> summaries[i].title],
                            <<>>, [summaries |-> summaries], t),
                 Len(first), errors, 0)

\* TrendAgent._analyze_trends: the LLM's JSON, or the stub when anything raises
AnalyzeTrends(summaries, llm) ==
    IF llm.ok /\ \A i \in 1..Len(summaries) : "title" \in DOMAIN summaries[i]
    THEN llm.json
    ELSE [patterns |-> <<"Analysis pending">>, contradictions |-> <<>>,
          gaps |-> <<"Comprehensive analysis needed">>, common_variables |-> <<>>]

TrendExecute(project_id, store, llm, t) ==
    LET reader_result == GetAgentResult(store, project_id, "reader")
        summaries == Get(Get(reader_result, "metadata", EmptyDict), "summaries", <<>>)
        titled == \A i \in 1..Len(summaries) : "title" \in DOMAIN summaries[i]
        trends == AnalyzeTrends(summaries, llm)
    IN  IF Falsy(reader_result) \/ summaries = <<>>
        THEN Ran(RichOutput("TrendAgent", "No paper summaries available for analysis", 0, <<>>,
                            <<"Run reader agent first">>, EmptyDict, t),
                 0, 0, 0)
        ELSE IF ~titled
        THEN Ran(RichOutput("TrendAgent", "Error analyzing trends", 0, <<>>,
                            <<"Trend analysis failed">>, [error |-> "exception"], t),
                 0, 0, 0)
        ELSE Ran(RichOutput("TrendAgent", "Analyzed trends across papers", 80,
                            [i \in 1..Len(summaries) |-> summaries[i].title],
                            Get(trends, "contradictions", <<>>), trends, t),
                 1, IF llm.ok THEN 0 ELSE 1, 0)

\* HypothesisAgent._generate_hypotheses: the LLM's JSON, or the stub hypothesis
GenerateHypotheses(research_question, trends, thesis_data, llm) ==
    IF llm.ok
    THEN llm.json
    ELSE [hypotheses |-> <<[statement |-> "Hypothesis generation pending",
                            rationale |-> "Requires OpenAI analysis",
                            experiments |-> <<"Design experiments based on analysis">>,
                            feasibility |-> 50]>>,
          recommendations |-> <<"Complete AI analysis for detailed hypotheses">>]

\* `files` are the project files session_manager.load_project reads
HypothesisExecute(project_id, store, files, llm, t) ==
    LET thesis_result == GetAgentResult(store, project_id, "thesis")
        trend_result == GetAgentResult(store, project_id, "trend")
        project == LoadProject(files, project_id)
    IN  IF Falsy(thesis_result) \/ Falsy(trend_result)
        THEN Ran(RichOutput("HypothesisAgent", "Missing prerequisite analysis", 0, <<>>,
                            <<"Run thesis and trend agents first">>, EmptyDict, t),
                 0, 0, 0)
        ELSE IF project = None \/ "research_question" \notin DOMAIN project
        THEN \* project['research_question'] raises, caught by execute
             Ran(RichOutput("HypothesisAgent", "Error generating hypotheses", 0, <<>>,
                            <<"Hypothesis generation failed">>, [error |-> "exception"], t),
                 0, 0, 0)
        ELSE Ran(RichOutput("HypothesisAgent", "Generated hypotheses", 85,
                            <<"Research analysis">>, <<>>,
                            GenerateHypotheses(project.research_question, trend_result.metadata,
                                               thesis_result.metadata, llm), t),
                 1, IF llm.ok THEN 0 ELSE 1, 0)

TotalAgents == 7

Agents == {"thesis", "file", "search", "reader", "trend", "hypothesis", "map"}

\* MapAgent._generate_mermaid_diagram: the fixed graph and one ":::completed"
\* line per stored result of a known agent
DiagramNode(agent) ==
    CASE agent = "thesis" -> "B" [] agent = "file" -> "C" [] agent = "search" -> "D"
      [] agent = "reader" -> "E" [] agent = "trend" -> "F" [] agent = "hypothesis" -> "G"
      [] OTHER -> "H"

GenerateMermaidDiagram(agent_results) ==
    [graph |-> "graph TD",
     completed |-> {DiagramNode(a) : a \in (DOMAIN agent_results) \cap Agents}]

Max(S) == CHOOSE x \in S : \A y \in S : y <= x

\* MapAgent._create_pipeline_summary; last_executed is <<>> for Python's None
CreatePipelineSummary(agent_results) ==
    [total_agents |-> TotalAgents,
     completed_agents |-> Cardinality(DOMAIN agent_results),
     completion_percentage |-> PercentTenths(Cardinality(DOMAIN agent_results), TotalAgents),
     last_executed |-> IF DOMAIN agent_results = {} THEN <<>>
                       ELSE <<Max({Get(agent_results[a], "timestamp", -1) :
                                    a \in DOMAIN agent_results})>>]

MapExecute(project_id, files, t) ==
    LET project == LoadProject(files, project_id)
        agent_results == Get(project, "agent_results", EmptyDict)
    IN  IF project = None
        THEN \* project.get raises AttributeError, caught by execute
             Ran(RichOutput("MapAgent", "Error generating map", 0, <<>>,
                            <<"Map generation failed">>, [error |-> "exception"], t),
                 0, 0, 0)
        ELSE Ran(RichOutput("MapAgent", "Generated research pipeline map", 90,
                            <<"All agent results">>, <<>>,
                            [mermaid_diagram |-> GenerateMermaidDiagram(agent_results),
                             completed_agents |-> DOMAIN agent_results,
                             pipeline_summary |-> CreatePipelineSummary(agent_results)], t),
                 0, 0, 0)

-----------------------------------------------------------------------------
(* core.py and session_manager.py: the store *)

SessionId(n) == "uuid-" \o ToString(n)

\* f"project-{datetime.now().strftime('%Y%m%d-%H%M%S')}"
ProjectId(t) == "project-" \o ToString(t)

NoSession == ""

\* a session that is given a title when the caller gave none
SessionData_Untitled(session_id, title, research_question, t) ==
    [id |-> session_id, title |-> IF title = "" THEN "Untitled" ELSE title,
     research_question |-> research_question,
     created_at |-> t, updated_at |-> t, session_memory |-> SessionMemory,
     agent_results |-> EmptyDict, researcher_profile |-> ResearcherProfile]

\* the session_data dict of SessionManager.create_session
SessionData(session_id, title, research_question, t) ==
    [id |-> session_id, title |-> title, research_question |-> research_question,
     created_at |-> t, updated_at |-> t, session_memory |-> SessionMemory,
     agent_results |-> EmptyDict, researcher_profile |-> ResearcherProfile]

\* ProjectManager.create_project: the file of that name is written, whether
\* or not it exists
CreateProject(files, title, research_question, t) ==
    Put(files, ProjectId(t),
        [id |-> ProjectId(t), title |-> title, research_question |-> research_question,
         created_at |-> t, updated_at |-> t, session_memory |-> SessionMemory,
         agent_results |-> EmptyDict, researcher_profile |-> ResearcherProfile])

\* SessionManager.create_session: the session is registered and saved, the
\* project file created, the link recorded and the registry saved again
SessionsAfterCreate(store, session_id, title, research_question, t) ==
    Put(store, session_id,
        Put(SessionData(session_id, title, research_question, t), "project_id", ProjectId(t)))

\* the memory update of SessionManager.save_agent_result
UpdatedMemory(memory, agent_name, result, t) ==
    LET m == [memory EXCEPT !.last_update = t,
                            !.agent_progress = Put(@, agent_name, "completed")]
        metadata == result.metadata
    IN  IF agent_name = "thesis" /\ ~Falsy(metadata)
        THEN [m EXCEPT !.keywords = Get(metadata, "keywords", <<>>),
                       !.focus = Get(metadata, "summary", ""),
                       !.variables = Get(metadata, "variables", EmptyDict)]
        ELSE IF agent_name = "search" /\ ~Falsy(metadata)
        THEN [m EXCEPT !.paper_count = Len(Get(metadata, "papers", <<>>))]
        ELSE m

\* a store that keeps the first result saved for an agent
SessionsAfterSave_KeepsFirst(store, session_id, agent_name, result, t) ==
    IF session_id \in DOMAIN store
    THEN [store EXCEPT ![session_id] =
            [@ EXCEPT !.agent_results =
                         IF agent_name \in DOMAIN @ THEN @ ELSE Put(@, agent_name, AsDict(result)),
                      !.updated_at = t,
                      !.session_memory = UpdatedMemory(@, agent_name, result, t)]]
    ELSE store

\* SessionManager.save_agent_result, the registry part
SessionsAfterSave(store, session_id, agent_name, result, t) ==
    IF session_id \in DOMAIN store
    THEN [store EXCEPT ![session_id] =
            [@ EXCEPT !.agent_results = Put(@, agent_name, AsDict(result)),
                      !.updated_at = t,
                      !.session_memory = UpdatedMemory(@, agent_name, result, t)]]
    ELSE store

\* Objects held by more than one session.  shared.agent_results and
\* shared.agent_progress are the sets of sessions (two or more) whose
\* "agent_results" dict, and whose session memory's "agent_progress" dict, is
\* one object; a session in none of the sets holds objects of its own.
NothingShared == [agent_results |-> {}, agent_progress |-> {}]

\* the sessions holding the object session_id holds
SharingWith(classes, session_id) == UNION {c \in classes : session_id \in c} \cup {session_id}

\* session_id holds a new object, or is gone
Without(classes, session_id) ==
    {d \in {c \ {session_id} : c \in classes} : Cardinality(d) > 1}

\* new_session_id is given the object session_id holds
Joined(classes, session_id, new_session_id) ==
    {c \in classes : session_id \notin c}
        \cup {SharingWith(classes, session_id) \cup {new_session_id}}

\* a store in which every session holds objects of its own
SeenByOthers_Copied(store, share, session_id, agent_name) == store

\* save_agent_result changes two objects in place: the "agent_results" dict
\* (line 99) and the "agent_progress" dict the stored session memory holds
\* (lines 103 to 105); `store` is the registry after the save as the saved
\* session sees it, and the result is the registry as every session sees it
SeenByOthers(store, share, session_id, agent_name) ==
    [j \in DOMAIN store |->
        IF j = session_id THEN store[j]
        ELSE LET seen == IF j \in SharingWith(share.agent_results, session_id)
                         THEN [store[j] EXCEPT !.agent_results = store[session_id].agent_results]
                         ELSE store[j]
             IN  IF j \in SharingWith(share.agent_progress, session_id)
                 THEN [seen EXCEPT !.session_memory.agent_progress =
                                      Put(@, agent_name, "completed")]
                 ELSE seen]

\* line 115: the saved session is given a new session memory, a deep copy
SharedAfterSave(share, store, session_id) ==
    IF session_id \in DOMAIN store
    THEN [share EXCEPT !.agent_progress = Without(@, session_id)]
    ELSE share

\* a plausible slip: the result is set on the loaded project and never saved
ProjectSaveAgentResult_NotSaved(files, project_id, agent_name, result, t) == files

\* ProjectManager.save_agent_result with save_project
ProjectSaveAgentResult(files, project_id, agent_name, result, t) ==
    LET project == LoadProject(files, project_id)
    IN  IF ~Falsy(project)
        THEN Put(files, project_id,
                 [project EXCEPT !.agent_results = Put(@, agent_name, AsDict(result)),
                                 !.updated_at = t])
        ELSE files

\* SessionManager.save_agent_result, the project part
ProjectsAfterSave(files, store, session_id, agent_name, result, t) ==
    IF session_id \in DOMAIN store /\ "project_id" \in DOMAIN store[session_id]
    THEN ProjectSaveAgentResult(files, store[session_id].project_id, agent_name, result, t)
    ELSE files

-----------------------------------------------------------------------------
(* Actions of the store *)

Titles == {"Study A"}

Questions == {"Does compound X inhibit pathway Y?"}

\* the last step was not a recorded call on the store
NoCall == [op |-> "none"]

\* a second passes
Tick ==
    /\ now < MaxClock
    /\ now' = now + 1
    /\ call' = NoCall
    /\ UNCHANGED <<sessions, shared, sessions_file, projects, uuids, current_session_id, frontend, last,
                   other_sessions>>

\* what create_session(title, research_question) does to the store
DoCreateSession(title, research_question) ==
    /\ uuids < MaxSessions
    /\ shared' = shared
    /\ sessions' = SessionsAfterCreate(sessions, SessionId(uuids + 1), title, research_question, now)
    /\ sessions_file' = sessions'
    /\ projects' = CreateProject(projects, title, research_question, now)
    /\ uuids' = uuids + 1

\* SessionManager.create_session, called on the store
CreateSession(title, research_question) ==
    /\ DoCreateSession(title, research_question)
    /\ UNCHANGED <<now, current_session_id, frontend, last, other_sessions, call>>

\* what save_agent_result(session_id, agent_name, result) does to the store
DoSaveAgentResult(session_id, agent_name, result) ==
    /\ sessions' = SeenByOthers(SessionsAfterSave(sessions, session_id, agent_name, result, now),
                                shared, session_id, agent_name)
    /\ shared' = SharedAfterSave(shared, sessions, session_id)
    /\ sessions_file' = IF session_id \in DOMAIN sessions THEN sessions' ELSE sessions_file
    /\ projects' = ProjectsAfterSave(projects, sessions, session_id, agent_name, result, now)

\* SessionManager.save_agent_result, called on the store
SaveAgentResult(session_id, agent_name, result) ==
    /\ DoSaveAgentResult(session_id, agent_name, result)
    /\ UNCHANGED <<now, uuids, current_session_id, frontend, last, other_sessions, call>>

-----------------------------------------------------------------------------
(* cli_terminal.py and main.py: the run-agent command of the two front ends *)

FrontEnds == {"cli", "dashboard"}

\* nothing has been run yet
NothingRun ==
    [agent |-> "", shown |-> "nothing", message |-> "", out |-> <<>>,
     llm_calls |-> 0, llm_errors |-> 0, net_calls |-> 0]

\* the command ended with an error line and no Output
ErrorOnly(message) == [shown |-> "error", message |-> message]

\* the agent's execute returned
Executed(ran) == [shown |-> "output", ran |-> ran]

\* both front ends: create the session and make it the active one
NewSession(title, research_question) ==
    /\ current_session_id = NoSession
    /\ DoCreateSession(title, research_question)
    /\ current_session_id' = SessionId(uuids + 1)
    /\ UNCHANGED <<now, frontend, last, other_sessions, call>>

Keywords(thesis_result) == Get(Get(thesis_result, "metadata", EmptyDict), "keywords", <<>>)

\* run_agent (cli_terminal.py), the branch taken for agent_name
CliDispatch(agent_name, args, session, llm, net) ==
    CASE agent_name = "thesis" -> Executed(ThesisExecute(session.research_question, llm, now))
      [] agent_name = "search" ->
            LET thesis_result == GetAgentResult(sessions, session.id, "thesis")
            IN  IF Falsy(thesis_result)
                THEN ErrorOnly("Run thesis agent first to extract keywords")
                ELSE IF Keywords(thesis_result) = <<>>
                THEN ErrorOnly("No keywords found in thesis analysis")
                ELSE Executed(SearchExecute(Keywords(thesis_result), net, now))
      [] agent_name = "file" ->
            IF args = <<>>
            THEN ErrorOnly("File agent requires file paths")
            ELSE Executed(FileExecute(args, now))
      [] agent_name = "reader" -> Executed(ReaderExecute(session.id, sessions, llm, now))
      [] agent_name = "trend" -> Executed(TrendExecute(session.id, sessions, llm, now))
      [] agent_name = "hypothesis" ->
            Executed(HypothesisExecute(session.id, sessions, projects, llm, now))
      [] agent_name = "map" -> Executed(MapExecute(session.id, projects, now))

\* execute_agent (main.py), the branch taken for agent_name
DashboardDispatch(agent_name, args, session, llm, net) ==
    CASE agent_name = "thesis" -> Executed(ThesisExecute(session.research_question, llm, now))
      [] agent_name = "search" ->
            LET thesis_result == GetAgentResult(sessions, session.id, "thesis")
            IN  IF Falsy(thesis_result)
                THEN ErrorOnly("Run thesis agent first to extract keywords")
                ELSE Executed(SearchExecute(Keywords(thesis_result), net, now))
      [] agent_name = "file" ->
            \* FileAgent.execute(session id, session manager) raises TypeError
            ErrorOnly("Agent execution failed")
      [] agent_name = "reader" -> Executed(ReaderExecute(session.id, sessions, llm, now))
      [] agent_name = "trend" -> Executed(TrendExecute(session.id, sessions, llm, now))
      [] agent_name = "hypothesis" ->
            Executed(HypothesisExecute(session.id, sessions, projects, llm, now))
      [] agent_name = "map" -> Executed(MapExecute(session.id, projects, now))

\* run <agent_name> <args> on the active session: dispatch, then save and
\* display the Output, or show the error line alone
RunAgent(agent_name, args, llm, net) ==
    /\ current_session_id # NoSession
    /\ current_session_id \in DOMAIN sessions
    /\ LET session == sessions[current_session_id]
           done == IF frontend = "cli"
                   THEN CliDispatch(agent_name, args, session, llm, net)
                   ELSE DashboardDispatch(agent_name, args, session, llm, net)
       IN  IF done.shown = "output"
           THEN /\ DoSaveAgentResult(session.id, agent_name, done.ran.out)
                /\ last' = [agent |-> agent_name, shown |-> "output", message |-> "",
                            out |-> <<done.ran.out>>, llm_calls |-> done.ran.llm_calls,
                            llm_errors |-> done.ran.llm_errors,
                            net_calls |-> done.ran.net_calls]
           ELSE /\ last' = [agent |-> agent_name, shown |-> "error", message |-> done.message,
                            out |-> <<>>, llm_calls |-> 0, llm_errors |-> 0, net_calls |-> 0]
                /\ UNCHANGED <<sessions, shared, sessions_file, projects>>
    /\ UNCHANGED <<now, uuids, current_session_id, frontend, other_sessions, call>>

FileArgs == {<<>>, <<"paper.pdf">>}

\* The environment answers the requests an agent issues: the replies are
\* drawn for the LLM requests the run makes (none when the agent refuses).
NoReplies == [i \in 1..ReaderLimit |-> "error"]

ReaderReplies ==
    [1..ReaderExecute(current_session_id, sessions, NoReplies, now).llm_calls -> ReaderLLM]

TrendReplies ==
    IF TrendExecute(current_session_id, sessions, LLMError, now).llm_calls > 0
    THEN TrendLLM ELSE {LLMError}

HypothesisReplies ==
    IF HypothesisExecute(current_session_id, sessions, projects, LLMError, now).llm_calls > 0
    THEN HypothesisLLM ELSE {LLMError}

RunThesis == \E llm \in ThesisLLM : RunAgent("thesis", <<>>, llm, NetError)

RunFile == \E args \in FileArgs : RunAgent("file", args, LLMError, NetError)

RunSearch == \E net \in SearchNet : RunAgent("search", <<>>, LLMError, net)

RunReader == \E llms \in ReaderReplies : RunAgent("reader", <<>>, llms, NetError)

RunTrend == \E llm \in TrendReplies : RunAgent("trend", <<>>, llm, NetError)

RunHypothesis == \E llm \in HypothesisReplies : RunAgent("hypothesis", <<>>, llm, NetError)

RunMap == RunAgent("map", <<>>, LLMError, NetError)

\* view_agent_result (cli_terminal.py): the stored record is turned back into
\* a RichOutput, which is displayed
ViewAgentResult(agent_name) ==
    /\ current_session_id # NoSession
    /\ LET result_data == GetAgentResult(sessions, current_session_id, agent_name)
       IN  call' = IF Falsy(result_data)
                   THEN [op |-> "view_agent_result", agent_name |-> agent_name,
                         result_data |-> <<>>, result |-> <<>>]
                   ELSE [op |-> "view_agent_result", agent_name |-> agent_name,
                         result_data |-> <<result_data>>,
                         result |-> <<FromDict(result_data, now)>>]
    /\ UNCHANGED <<sessions, shared, sessions_file, projects, now, uuids, current_session_id,
                   frontend, last, other_sessions>>

-----------------------------------------------------------------------------
(* session_manager.py and core.py: calls on the store whose writes can fail. *)
(* `call` records the call, its arguments and whether it raised.             *)

Remove(d, k) == [x \in (DOMAIN d) \ {k} |-> d[x]]

\* a store that merges on write: results found in the file are kept unless
\* memory holds a result for the same session and agent
SaveSessions_Merged(memory, file) ==
    [session_id \in DOMAIN memory |->
        IF session_id \in DOMAIN file
        THEN [memory[session_id] EXCEPT !.agent_results =
                [agent_name \in (DOMAIN @) \cup (DOMAIN file[session_id].agent_results) |->
                    IF agent_name \in DOMAIN @ THEN @[agent_name]
                    ELSE file[session_id].agent_results[agent_name]]]
        ELSE memory[session_id]]

\* a store that leaves the registry file as it is
SaveSessions_NotWritten(memory, file) == file

\* _save_sessions: the whole registry is rewritten from memory
SaveSessions(memory, file) == memory

\* what sessions.json reads back as (_load_sessions) after a write that
\* raised: as it was when open() raised, {} when json.dump raised part way
AfterFailedWrite(file) == {file, EmptyDict}

CreateCall(session_id, title, research_question) ==
    [op |-> "create_session", session_id |-> session_id, title |-> title,
     research_question |-> research_question]

\* create_session returns the new session's id
CreateSessionReturns(title, research_question) ==
    /\ DoCreateSession(title, research_question)
    /\ call' = CreateCall(SessionId(uuids + 1), title, research_question)
    /\ UNCHANGED <<now, current_session_id, frontend, last, other_sessions>>

\* previous: what get_agent_result returned just before the call
SaveCall(session_id, agent_name, result, raised) ==
    [op |-> "save_agent_result", session_id |-> session_id, agent_name |-> agent_name,
     result |-> result, raised |-> raised,
     previous |-> GetAgentResult(sessions, session_id, agent_name)]

\* save_agent_result returns: both writes succeeded, or there was no such
\* session, no project link or no project file and those steps were skipped
SaveAgentResultReturns(session_id, agent_name, result) ==
    /\ DoSaveAgentResult(session_id, agent_name, result)
    /\ call' = SaveCall(session_id, agent_name, result, FALSE)
    /\ UNCHANGED <<now, uuids, current_session_id, frontend, last, other_sessions>>

\* save_agent_result, _save_sessions raises: the session in memory has been
\* updated already and the exception leaves the method
SaveAgentResultRegistryWriteRaises(session_id, agent_name, result) ==
    /\ session_id \in DOMAIN sessions
    /\ sessions' = SeenByOthers(SessionsAfterSave(sessions, session_id, agent_name, result, now),
                                shared, session_id, agent_name)
    /\ shared' = SharedAfterSave(shared, sessions, session_id)
    /\ sessions_file' \in AfterFailedWrite(sessions_file)
    /\ call' = SaveCall(session_id, agent_name, result, TRUE)
    /\ UNCHANGED <<projects, now, uuids, current_session_id, frontend, last, other_sessions>>

\* save_agent_result, the registry is written and then the write of the
\* project file raises (save_project): the exception leaves the method
SaveAgentResultProjectWriteRaises(session_id, agent_name, result) ==
    /\ session_id \in DOMAIN sessions
    /\ "project_id" \in DOMAIN sessions[session_id]
    /\ ~Falsy(LoadProject(projects, sessions[session_id].project_id))
    /\ sessions' = SeenByOthers(SessionsAfterSave(sessions, session_id, agent_name, result, now),
                                shared, session_id, agent_name)
    /\ shared' = SharedAfterSave(shared, sessions, session_id)
    /\ sessions_file' = SaveSessions(sessions', sessions_file)
    /\ call' = SaveCall(session_id, agent_name, result, TRUE)
    /\ UNCHANGED <<projects, now, uuids, current_session_id, frontend, last, other_sessions>>

\* the environment: a file of projects/ is removed (load_project then finds
\* no file and returns None)
RemoveProjectFile(project_id) ==
    /\ project_id \in DOMAIN projects
    /\ projects' = Remove(projects, project_id)
    /\ call' = NoCall
    /\ UNCHANGED <<sessions, shared, sessions_file, now, uuids, current_session_id, frontend, last,
                   other_sessions>>

\* dict.update
Updated(d, updates) ==
    [k \in (DOMAIN d) \cup (DOMAIN updates) |-> IF k \in DOMAIN updates THEN updates[k] ELSE d[k]]

\* SessionManager.update_session, the registry part
SessionsAfterUpdate(store, session_id, updates, t) ==
    IF session_id \in DOMAIN store
    THEN [store EXCEPT ![session_id] = Put(Updated(@, updates), "updated_at", t)]
    ELSE store

\* update_session returns: the session's fields are replaced and the
\* registry rewritten, or there is no such session and nothing is done
UpdateSessionReturns(session_id, updates) ==
    /\ sessions' = SessionsAfterUpdate(sessions, session_id, updates, now)
    /\ shared' = IF session_id \in DOMAIN sessions
                 THEN [agent_results |->
                          IF "agent_results" \in DOMAIN updates
                          THEN Without(shared.agent_results, session_id)
                          ELSE shared.agent_results,
                       agent_progress |->
                          IF "session_memory" \in DOMAIN updates
                          THEN Without(shared.agent_progress, session_id)
                          ELSE shared.agent_progress]
                 ELSE shared
    /\ sessions_file' = IF session_id \in DOMAIN sessions
                        THEN SaveSessions(sessions', sessions_file)
                        ELSE sessions_file
    /\ call' = [op |-> "update_session", session_id |-> session_id, updates |-> updates]
    /\ UNCHANGED <<projects, now, uuids, current_session_id, frontend, last, other_sessions>>

\* a store whose delete empties the registry
SessionsAfterDelete_All(store, session_id) ==
    IF session_id \in DOMAIN store THEN EmptyDict ELSE store

\* SessionManager.delete_session, the registry part
SessionsAfterDelete(store, session_id) ==
    IF session_id \in DOMAIN store THEN Remove(store, session_id) ELSE store

\* delete_session returns True after removing the session and rewriting the
\* registry, False when there is no such session
DeleteSessionReturns(session_id) ==
    /\ sessions' = SessionsAfterDelete(sessions, session_id)
    /\ shared' = [agent_results |-> Without(shared.agent_results, session_id),
                  agent_progress |-> Without(shared.agent_progress, session_id)]
    /\ sessions_file' = IF session_id \in DOMAIN sessions
                        THEN SaveSessions(sessions', sessions_file)
                        ELSE sessions_file
    /\ call' = [op |-> "delete_session", session_id |-> session_id,
                returned |-> session_id \in DOMAIN sessions]
    /\ UNCHANGED <<projects, now, uuids, current_session_id, frontend, last, other_sessions>>

-----------------------------------------------------------------------------
(* session_manager.py: a second SessionManager working on the same           *)
(* sessions.json and projects/, as a second process constructs it            *)

\* SessionManager.__init__ with _load_sessions: the registry file is read once
OtherLoads ==
    /\ other_sessions' = sessions_file
    /\ call' = [op |-> "other.load"]
    /\ UNCHANGED <<sessions, shared, sessions_file, projects, now, uuids, current_session_id,
                   frontend, last>>

OtherSaveCall(session_id, agent_name, result) ==
    [op |-> "other.save_agent_result", session_id |-> session_id,
     agent_name |-> agent_name, result |-> result, raised |-> FALSE]

\* save_agent_result on the second instance: its own copy of the registry is
\* updated and written over the file
OtherSaveAgentResult(session_id, agent_name, result) ==
    /\ session_id \in DOMAIN other_sessions
    /\ other_sessions' = SessionsAfterSave(other_sessions, session_id, agent_name, result, now)
    /\ sessions_file' = SaveSessions(other_sessions', sessions_file)
    /\ projects' = ProjectsAfterSave(projects, other_sessions, session_id, agent_name, result, now)
    /\ call' = OtherSaveCall(session_id, agent_name, result)
    /\ UNCHANGED <<sessions, shared, now, uuids, current_session_id, frontend, last>>

-----------------------------------------------------------------------------
(* session_manager.py: export, import and statistics *)

\* export_session: a copy of the session dict with two fields added
ExportSession(store, session_id, t) ==
    IF session_id \in DOMAIN store
    THEN Put(Put(store[session_id], "export_timestamp", t), "export_version", "1.0")
    ELSE None

ExportSessionReturns(session_id) ==
    /\ call' = [op |-> "export_session", session_id |-> session_id,
                session_data |-> ExportSession(sessions, session_id, now)]
    /\ UNCHANGED <<sessions, shared, sessions_file, projects, now, uuids, current_session_id,
                   frontend, last, other_sessions>>

\* an import that keeps the identifier found in the snapshot
CleanData_KeepsId(new_session_id, session_data, t) ==
    [id |-> Get(session_data, "id", new_session_id),
     title |-> "[IMPORTED] " \o Get(session_data, "title", "Untitled"),
     research_question |-> Get(session_data, "research_question", ""),
     created_at |-> t, updated_at |-> t,
     session_memory |-> Get(session_data, "session_memory", SessionMemory),
     agent_results |-> Get(session_data, "agent_results", EmptyDict),
     researcher_profile |-> Get(session_data, "researcher_profile", ResearcherProfile)]

\* an import that starts the new session without results
CleanData_NoResults(new_session_id, session_data, t) ==
    [id |-> new_session_id,
     title |-> "[IMPORTED] " \o Get(session_data, "title", "Untitled"),
     research_question |-> Get(session_data, "research_question", ""),
     created_at |-> t, updated_at |-> t,
     session_memory |-> Get(session_data, "session_memory", SessionMemory),
     agent_results |-> EmptyDict,
     researcher_profile |-> Get(session_data, "researcher_profile", ResearcherProfile)]

\* the clean_data dict of import_session
CleanData(new_session_id, session_data, t) ==
    [id |-> new_session_id,
     title |-> "[IMPORTED] " \o Get(session_data, "title", "Untitled"),
     research_question |-> Get(session_data, "research_question", ""),
     created_at |-> t, updated_at |-> t,
     session_memory |-> Get(session_data, "session_memory", SessionMemory),
     agent_results |-> Get(session_data, "agent_results", EmptyDict),
     researcher_profile |-> Get(session_data, "researcher_profile", ResearcherProfile)]

\* import_session: the session is registered under a new uuid and saved.
\* `source` is the session whose objects session_data holds (export_session
\* returned it), NoSession for a dict built elsewhere: clean_data takes the
\* "session_memory" and "agent_results" objects of session_data as they are
ImportSessionReturns(session_data, source) ==
    /\ uuids < MaxSessions
    /\ shared' = IF source \in DOMAIN sessions
                 THEN [agent_results |->
                          Joined(shared.agent_results, source, SessionId(uuids + 1)),
                       agent_progress |->
                          Joined(shared.agent_progress, source, SessionId(uuids + 1))]
                 ELSE shared
    /\ LET clean_data == CleanData(SessionId(uuids + 1), session_data, now)
       IN  sessions' = Put(sessions, clean_data.id, clean_data)
    /\ sessions_file' = SaveSessions(sessions', sessions_file)
    /\ uuids' = uuids + 1
    /\ call' = [op |-> "import_session", session_id |-> SessionId(uuids + 1),
                session_data |-> session_data]
    /\ UNCHANGED <<projects, now, current_session_id, frontend, last, other_sessions>>

RECURSIVE Sum(_, _)
\* sum(f[k] for k in keys)
Sum(f, keys) ==
    IF keys = {} THEN 0
    ELSE LET k == CHOOSE x \in keys : TRUE
         IN  f[k] + Sum(f, keys \ {k})

\* round(sum / n, 2) in hundredths, sum being in hundredths; a quotient half
\* way between two hundredths goes to either neighbour, as the binary value
\* of the float decides
RoundedQuotient(sum, n) ==
    LET q == sum \div n
        r == sum % n
    IN  IF 2 * r < n THEN {q} ELSE IF 2 * r > n THEN {q + 1} ELSE {q, q + 1}

total_agents == 7

\* the results that count for the average: `"confidence" in r`
Scored(agent_results) == {k \in DOMAIN agent_results : "confidence" \in DOMAIN agent_results[k]}

\* an average taken over all the agents of the pipeline
AverageConfidence_OverAllAgents(agent_results) ==
    RoundedQuotient(Sum([k \in Scored(agent_results) |-> agent_results[k].confidence],
                        Scored(agent_results)), total_agents)

\* round(avg_confidence, 2): the possible values, in hundredths
AverageConfidence(agent_results) ==
    LET confidence_scores == [k \in Scored(agent_results) |-> agent_results[k].confidence]
    IN  IF Scored(agent_results) # {}
        THEN RoundedQuotient(Sum(confidence_scores, Scored(agent_results)),
                             Cardinality(Scored(agent_results)))
        ELSE {0}

\* get_session_statistics: the dicts it can return
GetSessionStatistics(store, session_id) ==
    IF session_id \notin DOMAIN store THEN {EmptyDict}
    ELSE LET session == store[session_id]
             agent_results == Get(session, "agent_results", EmptyDict)
             completed_agents == Cardinality(DOMAIN agent_results)
         IN  {[total_agents |-> total_agents,
               completed_agents |-> completed_agents,
               completion_percentage |-> PercentTenths(completed_agents, total_agents),
               average_confidence |-> avg_confidence,
               last_update |-> Get(session, "updated_at", -1),
               total_sources |-> Sum([k \in DOMAIN agent_results |->
                                        Len(Get(agent_results[k], "sources", <<>>))],
                                     DOMAIN agent_results),
               total_warnings |-> Sum([k \in DOMAIN agent_results |->
                                         Len(Get(agent_results[k], "warnings", <<>>))],
                                      DOMAIN agent_results)] :
              avg_confidence \in AverageConfidence(agent_results)}

GetSessionStatisticsReturns(session_id) ==
    /\ \E stats \in GetSessionStatistics(sessions, session_id) :
          call' = [op |-> "get_session_statistics", session_id |-> session_id, stats |-> stats]
    /\ UNCHANGED <<sessions, shared, sessions_file, projects, now, uuids, current_session_id,
                   frontend, last, other_sessions>>

-----------------------------------------------------------------------------
(* agents.py: the Search agent on a response of the search service *)

\* the i-th <entry> of a response: complete, or lacking one of its tags
EntryKinds(i) ==
    {Entry(i), Remove(Entry(i), "id"), Remove(Entry(i), "title"), Remove(Entry(i), "summary")}

RECURSIVE ResponsesOfLen(_)
\* the responses of n entries
ResponsesOfLen(n) ==
    IF n = 0 THEN {<<>>}
    ELSE {Append(response, entry) : response \in ResponsesOfLen(n - 1), entry \in EntryKinds(n)}

\* the responses of at most MaxEntries entries
Responses == UNION {ResponsesOfLen(n) : n \in 0..MaxEntries}

\* the search agent is about to receive `response`
Pending(response) ==
    [agent |-> "search", shown |-> "nothing", message |-> "", out |-> <<>>,
     llm_calls |-> 0, llm_errors |-> 0, net_calls |-> 0, response |-> response,
     raised |-> FALSE]

\* SearchAgent.execute, the service answering with last.response
SearchParses ==
    /\ last.shown = "nothing"
    /\ LET ran == SearchExecute(<<"compound X">>, NetReply(last.response), now)
       IN  last' = [last EXCEPT !.shown = "output", !.out = <<ran.out>>,
                                !.net_calls = ran.net_calls]
    /\ UNCHANGED <<sessions, shared, sessions_file, projects, now, uuids, current_session_id,
                   frontend, other_sessions, call>>

\* SearchAgent.execute, the request raising (requests.get on a network
\* error, raise_for_status on an error status): no response is parsed
SearchRequestRaises ==
    /\ last.shown = "nothing"
    /\ LET ran == SearchExecute(<<"compound X">>, NetError, now)
       IN  last' = [last EXCEPT !.shown = "output", !.out = <<ran.out>>,
                                !.net_calls = ran.net_calls, !.raised = TRUE]
    /\ UNCHANGED <<sessions, shared, sessions_file, projects, now, uuids, current_session_id,
                   frontend, other_sessions, call>>

-----------------------------------------------------------------------------
(* Specifications *)

Init ==
    /\ sessions = EmptyDict
    /\ sessions_file = EmptyDict
    /\ projects = EmptyDict
    /\ now = 0
    /\ uuids = 0
    /\ current_session_id = NoSession
    /\ frontend \in FrontEnds
    /\ last = NothingRun
    /\ other_sessions = EmptyDict
    /\ shared = NothingShared
    /\ call = NoCall

\* One front end working on one research session: the session is created,
\* then agents are run on it in any order, any number of times.
PipelineNext ==
    \/ \E title \in Titles, research_question \in Questions :
          NewSession(title, research_question)
    \/ RunThesis
    \/ RunFile
    \/ RunSearch
    \/ RunReader
    \/ RunTrend
    \/ RunHypothesis
    \/ RunMap

PipelineSpec == Init /\ [][PipelineNext]_vars

\* the Outputs handed to save_agent_result when the store is driven directly
StoreAgents == {"thesis", "file"}

StoreOutputs(agent_name, t) ==
    IF agent_name = "thesis"
    THEN {ThesisExecute("", llm, t).out : llm \in {LLMError, LLMReply(ThesisJSON)}}
    ELSE {FileExecute(<<"paper.pdf">>, t).out}

\* The store driven directly: sessions are created and results saved while
\* the clock advances; no write fails.
Next ==
    \/ Tick
    \/ \E title \in Titles, research_question \in Questions :
          CreateSession(title, research_question)
    \/ \E session_id \in DOMAIN sessions, agent_name \in StoreAgents :
          \E result \in StoreOutputs(agent_name, now) :
             SaveAgentResult(session_id, agent_name, result)

\* the store as the terminal front end constructs it
StoreInit == Init /\ frontend = "cli"

Spec == StoreInit /\ [][Next]_vars

\* The store with failing writes: sessions are created and results saved,
\* all within one clock second, while a write may raise and a project file
\* may disappear.
FailureNext ==
    \/ \E title \in Titles, research_question \in Questions :
          CreateSessionReturns(title, research_question)
    \/ \E session_id \in DOMAIN sessions, agent_name \in StoreAgents :
          \E result \in StoreOutputs(agent_name, now) :
             \/ SaveAgentResultReturns(session_id, agent_name, result)
             \/ SaveAgentResultRegistryWriteRaises(session_id, agent_name, result)
             \/ SaveAgentResultProjectWriteRaises(session_id, agent_name, result)
    \/ \E project_id \in DOMAIN projects : RemoveProjectFile(project_id)

FailureSpec == StoreInit /\ [][FailureNext]_vars

\* Two processes working on one session through the same files: the first
\* creates the session and saves results, the second loads the registry at
\* some moment and saves results too.
RaceNext ==
    \/ Tick
    \/ \E title \in Titles, research_question \in Questions :
          sessions = EmptyDict /\ CreateSessionReturns(title, research_question)
    \/ OtherLoads
    \/ \E session_id \in DOMAIN sessions, agent_name \in StoreAgents :
          \E result \in StoreOutputs(agent_name, now) :
             SaveAgentResultReturns(session_id, agent_name, result)
    \/ \E session_id \in DOMAIN other_sessions, agent_name \in StoreAgents :
          \E result \in StoreOutputs(agent_name, now) :
             OtherSaveAgentResult(session_id, agent_name, result)

RaceSpec == StoreInit /\ [][RaceNext]_vars

\* the (title, research_question) pairs handed to create_session, the pair
\* of empty strings included
CreateInputs == (Titles \X Questions) \cup {<<"", "">>}

\* The calls of the store's interface on one SessionManager, within one
\* clock second: create, save and statistics.
CallsNext ==
    \/ \E input \in CreateInputs : CreateSessionReturns(input[1], input[2])
    \/ \E session_id \in DOMAIN sessions, agent_name \in StoreAgents :
          \E result \in StoreOutputs(agent_name, now) :
             SaveAgentResultReturns(session_id, agent_name, result)
    \/ \E session_id \in DOMAIN sessions : GetSessionStatisticsReturns(session_id)

CallsSpec == StoreInit /\ [][CallsNext]_vars

\* a result map with an entry for every agent of the pipeline and one more
EightResults == [k \in Agents \cup {"notes"} |-> [confidence |-> 50]]

\* the dicts handed to import_session, besides the snapshots export_session
\* returned: one without any field, and one from another registry with
\* results under eight names
Snapshots ==
    {EmptyDict,
     [id |-> "session-x", title |-> "Old study", agent_results |-> EightResults]}

\* Sessions are created, given results, exported and imported (a snapshot
\* just exported, or a dict from elsewhere), within one clock second.
ImportNext ==
    \/ \E title \in Titles, research_question \in Questions :
          CreateSessionReturns(title, research_question)
    \/ \E session_id \in DOMAIN sessions, agent_name \in StoreAgents :
          \E result \in StoreOutputs(agent_name, now) :
             SaveAgentResultReturns(session_id, agent_name, result)
    \/ \E session_id \in DOMAIN sessions : ExportSessionReturns(session_id)
    \/ call.op = "export_session" /\ ImportSessionReturns(call.session_data, call.session_id)
    \/ \E session_data \in Snapshots : ImportSessionReturns(session_data, NoSession)

ImportSpec == StoreInit /\ [][ImportNext]_vars

\* The Search agent applied to every response of the model
ParseInit ==
    /\ sessions = EmptyDict
    /\ sessions_file = EmptyDict
    /\ projects = EmptyDict
    /\ now = 0
    /\ uuids = 0
    /\ current_session_id = NoSession
    /\ frontend = "cli"
    /\ last \in {Pending(response) : response \in Responses}
    /\ other_sessions = EmptyDict
    /\ shared = NothingShared
    /\ call = NoCall

ParseNext == SearchParses

ParseSpec == ParseInit /\ [][ParseNext]_vars

\* The Search agent whose request is answered or fails
FallbackNext == SearchParses \/ SearchRequestRaises

FallbackSpec == ParseInit /\ [][FallbackNext]_vars

\* the ids create_session can have returned, in use or not
SessionIds == {SessionId(n) : n \in 1..MaxSessions}

\* The store with deletion: sessions are created and deleted and results are
\* saved, for ids in the registry and for ids no longer or not yet in it,
\* while the clock advances
DeleteNext ==
    \/ Tick
    \/ \E title \in Titles, research_question \in Questions :
          CreateSessionReturns(title, research_question)
    \/ \E session_id \in SessionIds, result \in StoreOutputs("file", now) :
          SaveAgentResultReturns(session_id, "file", result)
    \/ \E session_id \in SessionIds : DeleteSessionReturns(session_id)

DeleteSpec == StoreInit /\ [][DeleteNext]_vars

\* the Outputs of the thesis, search and file agents, the LLM answering the
\* thesis agent also with an empty content (`content or "{}"` gives {})
MemoryAgents == {"thesis", "search", "file"}

MemoryOutputs(agent_name, t) ==
    CASE agent_name = "thesis" ->
            {ThesisExecute("", llm, t).out : llm \in ThesisLLM \cup {LLMReply(EmptyDict)}}
      [] agent_name = "search" ->
            {SearchExecute(<<"compound X">>, net, t).out : net \in SearchNet}
      [] OTHER -> {FileExecute(<<"paper.pdf">>, t).out}

\* The store given the Outputs of agents that feed the session memory, and
\* of one that does not, in any order, within one clock second
MemoryNext ==
    \/ \E title \in Titles, research_question \in Questions :
          CreateSessionReturns(title, research_question)
    \/ \E session_id \in DOMAIN sessions, agent_name \in MemoryAgents :
          \E result \in MemoryOutputs(agent_name, now) :
             SaveAgentResultReturns(session_id, agent_name, result)

MemorySpec == StoreInit /\ [][MemoryNext]_vars

\* the fields handed to update_session
Updates == {[title |-> "Renamed"], [session_memory |-> SessionMemory]}

\* One store instance, no failing write: every operation of the store that
\* changes the registry, and export, within one clock second
RegistryNext ==
    \/ \E title \in Titles, research_question \in Questions :
          CreateSessionReturns(title, research_question)
    \/ \E session_id \in SessionIds, result \in StoreOutputs("file", now) :
          SaveAgentResultReturns(session_id, "file", result)
    \/ \E session_id \in SessionIds, updates \in Updates :
          UpdateSessionReturns(session_id, updates)
    \/ \E session_id \in SessionIds : DeleteSessionReturns(session_id)
    \/ \E session_id \in DOMAIN sessions : ExportSessionReturns(session_id)
    \/ call.op = "export_session" /\ ImportSessionReturns(call.session_data, call.session_id)
    \/ ImportSessionReturns(EmptyDict, NoSession)

RegistrySpec == StoreInit /\ [][RegistryNext]_vars

ViewedAgents == {"thesis", "file", "search"}

\* The terminal front end: agents are run on one session while the clock
\* advances, and their stored results are viewed
ViewNext ==
    \/ Tick
    \/ \E title \in Titles, research_question \in Questions :
          NewSession(title, research_question)
    \/ RunThesis
    \/ RunFile
    \/ RunSearch
    \/ \E agent_name \in ViewedAgents : ViewAgentResult(agent_name)

ViewSpec == StoreInit /\ [][ViewNext]_vars

-----------------------------------------------------------------------------
(* The claims, C1 to C8, under PipelineSpec *)

\* the stored results of the active session
Results ==
    IF current_session_id \in DOMAIN sessions
    THEN sessions[current_session_id].agent_results
    ELSE EmptyDict

Stored(agent_name) == agent_name \in DOMAIN Results

\* the last command ran agent_name
LastRan(agent_name) == last.agent = agent_name /\ last.shown # "nothing"

\* the Output the last command returned; only read when last.shown = "output"
LastOut == last.out[1]

Warned(text) == \E i \in 1..Len(LastOut.warnings) : LastOut.warnings[i] = text

HasWarning(out, text) == \E i \in 1..Len(out.warnings) : out.warnings[i] = text

RunFirst(agent_name) ==
    CASE agent_name = "reader" -> "Run search agent first"
      [] agent_name = "trend" -> "Run reader agent first"
      [] OTHER -> "Run thesis and trend agents first"

PrerequisiteMissing(agent_name) ==
    CASE agent_name = "reader" -> ~Stored("search")
      [] agent_name = "trend" -> ~Stored("reader")
      [] OTHER -> ~Stored("thesis") \/ ~Stored("trend")

\* C1: when the session holds no stored Output for the prerequisite of Reader
\* (Search), Trend (Reader) or Hypothesis (Thesis or Trend), running the agent
\* returns an Output (nothing is raised) with confidence 0.0 and a warning
\* naming the agent to run first, and issues no LLM request.  A run stores
\* only its own agent's result and results are never removed, so the
\* prerequisite is missing after the run exactly when it was missing before.
C1_RefusesWithoutPrerequisite ==
    \A agent_name \in {"reader", "trend", "hypothesis"} :
        (LastRan(agent_name) /\ PrerequisiteMissing(agent_name)) =>
            /\ last.shown = "output"
            /\ LastOut.confidence = 0
            /\ Warned(RunFirst(agent_name))
            /\ last.llm_calls = 0

\* the hypothesis agent was run with a thesis stored and no trend, and refused
C1_Witness ==
    /\ LastRan("hypothesis") /\ Stored("thesis") /\ ~Stored("trend")
    /\ last.shown = "output" /\ LastOut.confidence = 0
    /\ Warned("Run thesis and trend agents first")

\* C2: running search on a session with no stored thesis Output yields a
\* zero-confidence Output with a warning telling the caller to run thesis first
C2_SearchBeforeThesisYieldsOutput ==
    (LastRan("search") /\ ~Stored("thesis")) =>
        /\ last.shown = "output"
        /\ LastOut.confidence = 0
        /\ \E i \in 1..Len(LastOut.warnings) :
              LastOut.warnings[i] = "Run thesis agent first to extract keywords"

\* C3: a run of the search agent issues the literature-search request only
\* if the stored thesis Output supplies a non-empty keyword list
C3_NoRequestWithoutKeywords ==
    (LastRan("search") /\ last.net_calls > 0) =>
        /\ Stored("thesis")
        /\ Keywords(Results["thesis"]) # <<>>

PipelineStages == {"thesis", "search", "reader", "trend", "hypothesis"}

\* thesis, search, reader, trend and hypothesis were run in that order, each
\* on the stored result of the one before, then map was run
ScenarioDone ==
    /\ LastRan("map")
    /\ DOMAIN Results \ {"map"} = PipelineStages
    /\ Results["thesis"].confidence > 0
    /\ Results["search"].confidence = 90
    /\ Results["reader"].confidence > 0
    /\ Results["trend"].confidence > 0
    /\ ~HasWarning(Results["hypothesis"], "Run thesis and trend agents first")

PipelineSummary(out) == Get(out.metadata, "pipeline_summary", EmptyDict)

DiagramMarks(out) == Get(Get(out.metadata, "mermaid_diagram", EmptyDict), "completed", {})

\* C4: after the scenario, map's Output metadata reports 5 completed agents
\* out of 7 and a diagram that marks the five completed stages
C4_MapReportsFiveOfSeven ==
    ScenarioDone =>
        /\ last.shown = "output"
        /\ Get(PipelineSummary(LastOut), "completed_agents", -1) = 5
        /\ Get(PipelineSummary(LastOut), "total_agents", -1) = 7
        /\ {DiagramNode(a) : a \in PipelineStages} \subseteq DiagramMarks(LastOut)

\* C5: whatever results are stored, running map returns a positive-confidence
\* Output and never the 'Map generation failed' fallback
C5_MapNeverFails ==
    LastRan("map") =>
        /\ last.shown = "output"
        /\ LastOut.confidence > 0
        /\ ~Warned("Map generation failed")

\* C6: with thesis and trend Outputs stored, running hypothesis returns a
\* positive-confidence Output holding at least one hypothesis
C6_HypothesisWithPrerequisites ==
    (LastRan("hypothesis") /\ Stored("thesis") /\ Stored("trend")) =>
        /\ last.shown = "output"
        /\ LastOut.confidence > 0
        /\ Len(Get(LastOut.metadata, "hypotheses", <<>>)) >= 1

\* the confidence an agent gives its successful Output
SuccessConfidence(agent_name) ==
    CASE agent_name = "thesis" -> 92 [] agent_name = "file" -> 95
      [] agent_name = "search" -> 90 [] agent_name = "reader" -> 85
      [] agent_name = "trend" -> 80 [] agent_name = "hypothesis" -> 85
      [] OTHER -> 90

\* C7: an execute during which an LLM request failed returns an Output whose
\* confidence is below the agent's success confidence and which carries a warning
C7_FailureIsLowConfidenceWithWarning ==
    (last.shown = "output" /\ last.llm_errors > 0) =>
        /\ LastOut.confidence < SuccessConfidence(last.agent)
        /\ LastOut.warnings # <<>>

\* C8: every run of one of the seven agents on the active session yields an
\* Output that is shown and is the one stored under the agent's name
C8_EveryRunYieldsStoredOutput ==
    last.shown # "nothing" =>
        /\ last.shown = "output"
        /\ Stored(last.agent)
        /\ Results[last.agent] = AsDict(LastOut)

-----------------------------------------------------------------------------
(* The claims, C9 and C10, under Spec *)

Linked(session_id) == "project_id" \in DOMAIN sessions[session_id]

NoTwoInOneSecond ==
    \A s1, s2 \in DOMAIN sessions :
        s1 # s2 => sessions[s1].created_at # sessions[s2].created_at

Mirrored(session_id) ==
    /\ sessions[session_id].project_id \in DOMAIN projects
    /\ projects[sessions[session_id].project_id].agent_results
          = sessions[session_id].agent_results

\* C9: after any sequence of createSession and saveAgentResult calls (no write
\* failing) in which no two sessions were created within one clock second,
\* every session linked to a project holds the same agent-name to Output map
\* as that project's record
C9_SessionMirrorsProject ==
    NoTwoInOneSecond =>
        \A session_id \in DOMAIN sessions : Linked(session_id) => Mirrored(session_id)

\* two sessions created in different seconds, each with saved results, each
\* equal to its own project record
C9_Witness ==
    /\ NoTwoInOneSecond
    /\ Cardinality(DOMAIN sessions) = 2
    /\ \A session_id \in DOMAIN sessions :
          /\ Linked(session_id)
          /\ sessions[session_id].agent_results # EmptyDict
          /\ Mirrored(session_id)
    /\ \E s1, s2 \in DOMAIN sessions :
          sessions[s1].agent_results # sessions[s2].agent_results

\* C10: sessions created within the same clock second are not merged: no two
\* sessions are linked to one project record, so a result saved for one
\* session never appears in the project record linked from another
C10_NoSharedProjectRecord ==
    \A s1, s2 \in DOMAIN sessions :
        (s1 # s2 /\ Linked(s1) /\ Linked(s2)) =>
            sessions[s1].project_id # sessions[s2].project_id

-----------------------------------------------------------------------------
(* The claims, C11 and C12, under FailureSpec *)

SavedInMemory ==
    Get(sessions[call.session_id].agent_results, call.agent_name, None)

SavedInFile ==
    IF call.session_id \in DOMAIN sessions_file
    THEN Get(sessions_file[call.session_id].agent_results, call.agent_name, None)
    ELSE None

\* C11: save_agent_result is atomic for its caller: after a call that failed
\* because the registry write raised, the session in memory does not hold a
\* result that the registry file does not hold
C11_NoHalfWrittenResult ==
    (call.op = "save_agent_result" /\ call.raised) => SavedInMemory = SavedInFile

SavedInProject ==
    LET project == LoadProject(projects, sessions[call.session_id].project_id)
    IN  IF Falsy(project) THEN None ELSE Get(project.agent_results, call.agent_name, None)

\* C12: when save_agent_result returns normally for a session linked to a
\* project, the project's record holds the saved result: a project that was
\* not updated is reported to the caller, never passed over in silence
C12_ProjectMissIsSurfaced ==
    (/\ call.op = "save_agent_result" /\ ~call.raised
     /\ call.session_id \in DOMAIN sessions
     /\ Linked(call.session_id))
        => SavedInProject = SavedInMemory

-----------------------------------------------------------------------------
(* The claim C13, under RaceSpec *)

\* the result stored for agent_name in session_id of a registry, None if none
ResultIn(store, session_id, agent_name) ==
    IF session_id \in DOMAIN store
    THEN Get(store[session_id].agent_results, agent_name, None)
    ELSE None

\* the results the first instance saved that the second, having loaded the
\* registry earlier, does not hold
Unseen ==
    {<<session_id, agent_name>> \in (DOMAIN sessions) \X Agents :
        /\ ResultIn(sessions, session_id, agent_name) # None
        /\ ResultIn(other_sessions, session_id, agent_name)
              # ResultIn(sessions, session_id, agent_name)}

\* C13: when the second instance, which loaded the registry before the first
\* instance saved a result, saves a result of its own, the call returns
\* normally and the registry file no longer holds the first instance's result
C13_LastWriterWins ==
    call.op = "other.save_agent_result" =>
        /\ ~call.raised
        /\ \A u \in Unseen :
              ResultIn(sessions_file, u[1], u[2]) # ResultIn(sessions, u[1], u[2])

\* the first instance holds a thesis result that the second never saw, the
\* second has just saved a file result, and the file holds only the latter
C13_Witness ==
    /\ call.op = "other.save_agent_result" /\ call.agent_name = "file"
    /\ <<call.session_id, "thesis">> \in Unseen
    /\ ResultIn(sessions_file, call.session_id, "thesis") = None
    /\ ResultIn(sessions_file, call.session_id, "file") = AsDict(call.result)

-----------------------------------------------------------------------------
(* The claims C14, C17 and C18, under CallsSpec *)

\* C14: saving an Output for an agent replaces the stored one: afterwards
\* get_agent_result returns exactly the Output just saved and, when the agent
\* already had one, the session's result map has the same keys as before and
\* the statistics report the same number of completed agents
C14_SaveReplaces ==
    [][(call'.op = "save_agent_result" /\ call'.session_id \in DOMAIN sessions) =>
          LET session_id == call'.session_id
              agent_name == call'.agent_name
              before == sessions[session_id].agent_results
              after == sessions'[session_id].agent_results
          IN  /\ GetAgentResult(sessions', session_id, agent_name) = AsDict(call'.result)
              /\ agent_name \in DOMAIN before =>
                    /\ DOMAIN after = DOMAIN before
                    /\ \A was \in GetSessionStatistics(sessions, session_id),
                          is \in GetSessionStatistics(sessions', session_id) :
                          is.completed_agents = was.completed_agents]_vars

\* a thesis Output has just been saved over a different one
C14_Witness ==
    /\ call.op = "save_agent_result" /\ call.agent_name = "thesis"
    /\ call.previous # None
    /\ call.previous # AsDict(call.result)
    /\ GetAgentResult(sessions, call.session_id, "thesis") = AsDict(call.result)

\* C17: create_session(title, question) followed by get_session on the
\* returned id gives a record with no agent results and with exactly that
\* title and question; every session that existed before is unchanged
C17_CreateThenGet ==
    [][call'.op = "create_session" =>
          LET session == sessions'[call'.session_id]
          IN  /\ session.agent_results = EmptyDict
              /\ session.title = call'.title
              /\ session.research_question = call'.research_question
              /\ \A session_id \in DOMAIN sessions :
                    /\ session_id # call'.session_id
                    /\ sessions'[session_id] = sessions[session_id]]_vars

\* a session with an empty title has just been created while another
\* session holds results
C17_Witness ==
    /\ call.op = "create_session" /\ call.title = ""
    /\ sessions[call.session_id].title = ""
    /\ sessions[call.session_id].agent_results = EmptyDict
    /\ \E session_id \in DOMAIN sessions : sessions[session_id].agent_results # EmptyDict

\* the sum of the confidences of the stored Outputs, in hundredths
ConfidenceSum(agent_results) ==
    Sum([k \in Scored(agent_results) |-> agent_results[k].confidence], Scored(agent_results))

\* C18: the statistics of a session without results are 0 completed agents,
\* 0.0 percent and 0.0 average confidence, and nothing is raised; in general
\* the average confidence is the mean, to two decimals, of the confidences of
\* the stored Outputs and of nothing else
C18_StatisticsAverage ==
    call.op = "get_session_statistics" =>
        LET agent_results == sessions[call.session_id].agent_results
            n == Cardinality(Scored(agent_results))
            distance == call.stats.average_confidence * n - ConfidenceSum(agent_results)
        IN  /\ call.stats # EmptyDict
            /\ agent_results = EmptyDict =>
                  /\ call.stats.completed_agents = 0
                  /\ call.stats.completion_percentage = 0
                  /\ call.stats.average_confidence = 0
            /\ n = 0 => call.stats.average_confidence = 0
            /\ 2 * distance <= n /\ 2 * distance >= -n

\* the statistics of a session without results have been returned
C18_Witness ==
    /\ call.op = "get_session_statistics"
    /\ sessions[call.session_id].agent_results = EmptyDict
    /\ call.stats.completed_agents = 0
    /\ \E session_id \in DOMAIN sessions : sessions[session_id].agent_results # EmptyDict

-----------------------------------------------------------------------------
(* The claims C15, C16 and C19, under ImportSpec *)

\* the dict handed to the last import_session came from export_session
ImportedAnExport ==
    call.op = "import_session" /\ "export_version" \in DOMAIN call.session_data

\* C15: export_session(id) followed by import_session of the snapshot gives
\* a session under another id with the original's research_question and
\* agent_results; the original is still registered and is as it was exported
C15_ExportImportRoundTrip ==
    ImportedAnExport =>
        LET original_id == call.session_data.id
            imported == sessions[call.session_id]
        IN  /\ original_id \in DOMAIN sessions
            /\ call.session_id # original_id
            /\ imported.id = call.session_id
            /\ imported.research_question = sessions[original_id].research_question
            /\ imported.agent_results = sessions[original_id].agent_results
            /\ sessions[original_id]
                  = Remove(Remove(call.session_data, "export_timestamp"), "export_version")

\* a session holding results has been exported and the snapshot imported
C15_Witness ==
    /\ ImportedAnExport
    /\ sessions[call.session_data.id].agent_results # EmptyDict
    /\ sessions[call.session_id].agent_results = sessions[call.session_data.id].agent_results

\* C16: import_session of any dict, fields missing or not, adds exactly one
\* session, under an id that is neither the dict's id nor the id of a
\* registered session, titled with the import marker, with an empty question,
\* an empty result map and a fresh memory for the fields the dict lacks; the
\* sessions registered before are unchanged
C16_ImportAddsOneSession ==
    [][call'.op = "import_session" =>
          LET session_data == call'.session_data
              imported == sessions'[call'.session_id]
          IN  /\ call'.session_id \notin DOMAIN sessions
              /\ call'.session_id # Get(session_data, "id", NoSession)
              /\ DOMAIN sessions' = (DOMAIN sessions) \cup {call'.session_id}
              /\ imported.id = call'.session_id
              /\ imported.title = "[IMPORTED] " \o Get(session_data, "title", "Untitled")
              /\ "research_question" \notin DOMAIN session_data => imported.research_question = ""
              /\ "agent_results" \notin DOMAIN session_data => imported.agent_results = EmptyDict
              /\ "session_memory" \notin DOMAIN session_data => imported.session_memory = SessionMemory
              /\ \A session_id \in DOMAIN sessions : sessions'[session_id] = sessions[session_id]]_vars

\* a dict without any field has been imported next to a registered session
C16_Witness ==
    /\ call.op = "import_session" /\ call.session_data = EmptyDict
    /\ Cardinality(DOMAIN sessions) = 2
    /\ sessions[call.session_id].title = "[IMPORTED] Untitled"
    /\ sessions[call.session_id].agent_results = EmptyDict

\* C19: the keys of every session's result map are among the seven agent
\* names, so the statistics never report more than 7 completed agents nor
\* more than 100 percent
C19_ResultKeysAreAgentNames ==
    \A session_id \in DOMAIN sessions :
        /\ DOMAIN sessions[session_id].agent_results \subseteq Agents
        /\ \A stats \in GetSessionStatistics(sessions, session_id) :
              /\ stats.completed_agents <= 7
              /\ stats.completion_percentage <= 1000

-----------------------------------------------------------------------------
(* The claim C20, under ParseSpec *)

HasAllTags(entry) == {"id", "title", "summary"} \subseteq DOMAIN entry

\* C20: from a response mixing complete entries and entries lacking their
\* id, title or summary, the Search agent returns the complete entries, in
\* the order of the response, passes over the others and reports no error
C20_MalformedEntriesSkipped ==
    last.shown = "output" =>
        LET complete == SelectSeq(last.response, HasAllTags)
            out == last.out[1]
            papers == Get(out.metadata, "papers", <<>>)
        IN  /\ "error" \notin DOMAIN out.metadata
            /\ ~HasWarning(out, "ArXiv search failed")
            /\ Len(papers) = Len(complete)
            /\ \A i \in 1..Len(complete) :
                  /\ papers[i].title = complete[i].title
                  /\ papers[i].url = complete[i].id
                  /\ papers[i].abstract = complete[i].summary
            /\ complete # <<>> => (out.confidence = 90 /\ out.warnings = <<>>)

\* five complete entries and one without a title gave exactly five papers
C20_Witness ==
    /\ last.shown = "output"
    /\ Len(last.response) = 6
    /\ Len(SelectSeq(last.response, HasAllTags)) = 5
    /\ \E i \in 1..6 : "title" \notin DOMAIN last.response[i]
    /\ Len(last.out[1].metadata.papers) = 5

-----------------------------------------------------------------------------
(* The claim C21, under ViewSpec *)

Viewed == call.op = "view_agent_result" /\ call.result # <<>>

\* C21: a stored record, turned back into an Output and into a record
\* again, is the record it was: every field is kept and the timestamp is
\* the one of the Output's creation, not the time of decoding
C21_RecordRoundTrip ==
    Viewed =>
        LET result_data == call.result_data[1]
            result == call.result[1]
        IN  /\ AsDict(result) = result_data
            /\ result.timestamp = result_data.timestamp
            /\ DOMAIN AsDict(result) =
                  {"agent", "result", "confidence", "sources", "warnings", "metadata",
                   "timestamp"}

\* a result stored in one second was viewed in a later one
C21_Witness ==
    /\ Viewed
    /\ call.result_data[1].timestamp < now
    /\ AsDict(call.result[1]) = call.result_data[1]

-----------------------------------------------------------------------------
(* The claim C22, under PipelineSpec *)

\* 0.0 <= confidence <= 1.0, in hundredths
InUnitInterval(confidence) == confidence \in 0..100

\* C22: the Output an agent returns, on its success path or on a fallback
\* path, has a confidence between 0.0 and 1.0, and so has every Output stored
\* in the session by a run-agent command
C22_ConfidenceInUnitInterval ==
    /\ last.shown = "output" => InUnitInterval(LastOut.confidence)
    /\ \A session_id \in DOMAIN sessions :
          \A agent_name \in DOMAIN sessions[session_id].agent_results :
             InUnitInterval(sessions[session_id].agent_results[agent_name].confidence)

\* all seven agents have a stored Output, one of them a zero-confidence
\* fallback and one a success
C22_Witness ==
    /\ DOMAIN Results = Agents
    /\ \E agent_name \in Agents : Results[agent_name].confidence = 0
    /\ \E agent_name \in Agents : Results[agent_name].confidence = 95

-----------------------------------------------------------------------------
(* The claim C23, under DeleteSpec *)

StoreUnchanged == UNCHANGED <<sessions, sessions_file, projects>>

\* C23: deleting an existing session removes that session alone from the
\* registry and returns true, every other session and every project record,
\* the deleted session's included, staying as they were; the session is then
\* absent, and saving a result for its id changes neither the registry nor a
\* project record; deleting an unknown id returns false and changes nothing
C23_DeleteRemovesOneSession ==
    [][LET session_id == call'.session_id
       IN  /\ (call'.op = "delete_session" /\ call'.returned) =>
                 /\ session_id \in DOMAIN sessions
                 /\ DOMAIN sessions' = (DOMAIN sessions) \ {session_id}
                 /\ \A other \in DOMAIN sessions' : sessions'[other] = sessions[other]
                 /\ sessions_file' = sessions'
                 /\ projects' = projects
                 /\ GetAgentResult(sessions', session_id, "thesis") = None
           /\ (call'.op = "delete_session" /\ ~call'.returned) =>
                 /\ session_id \notin DOMAIN sessions
                 /\ StoreUnchanged
           /\ (call'.op = "save_agent_result" /\ session_id \notin DOMAIN sessions) =>
                 StoreUnchanged]_vars

\* a result was saved for the id of a deleted session while another session
\* and the deleted session's project record were there
C23_Witness ==
    /\ call.op = "save_agent_result"
    /\ uuids = MaxSessions
    /\ call.session_id \notin DOMAIN sessions
    /\ DOMAIN sessions # {}
    /\ Cardinality(DOMAIN projects) = MaxSessions

-----------------------------------------------------------------------------
(* The claims C24 and C29, under ImportSpec *)

\* C24: saving a result for agent a on an existing session changes that
\* session's stored Output for a, its updated_at and its session memory and
\* nothing else: the Outputs of the other agents of the session and all
\* other sessions are as they were
C24_SaveChangesOneResult ==
    [][(call'.op = "save_agent_result" /\ call'.session_id \in DOMAIN sessions) =>
          LET session_id == call'.session_id
              before == sessions[session_id]
              after == sessions'[session_id]
          IN  /\ DOMAIN sessions' = DOMAIN sessions
              /\ \A other \in (DOMAIN sessions) \ {session_id} :
                    sessions'[other] = sessions[other]
              /\ DOMAIN after.agent_results =
                    (DOMAIN before.agent_results) \cup {call'.agent_name}
              /\ \A agent_name \in (DOMAIN before.agent_results) \ {call'.agent_name} :
                    after.agent_results[agent_name] = before.agent_results[agent_name]
              /\ \A field \in (DOMAIN before) \ {"agent_results", "updated_at", "session_memory"} :
                    after[field] = before[field]]_vars

\* `imported` carries the title and the question import_session gives to a
\* session made from an export of `original`
ImportOf(imported, original) ==
    /\ sessions[imported].title = "[IMPORTED] " \o sessions[original].title
    /\ sessions[imported].research_question = sessions[original].research_question

\* C29: a session imported from an export of another is independent of it:
\* saving a result on one of the two never changes what get_agent_result
\* returns for the other
C29_ImportIsIndependent ==
    [][(call'.op = "save_agent_result" /\ call'.session_id \in DOMAIN sessions) =>
          \A other \in (DOMAIN sessions) \ {call'.session_id} :
             (ImportOf(other, call'.session_id) \/ ImportOf(call'.session_id, other)) =>
                \A agent_name \in Agents :
                   GetAgentResult(sessions', other, agent_name)
                      = GetAgentResult(sessions, other, agent_name)]_vars

-----------------------------------------------------------------------------
(* The claim C25, under MemorySpec *)

\* the session memory agrees with the stored thesis and search Outputs
MemoryFollowsResults(session) ==
    LET memory == session.session_memory
        results == session.agent_results
    IN  /\ "thesis" \in DOMAIN results =>
              /\ memory.keywords = Get(results["thesis"].metadata, "keywords", <<>>)
              /\ memory.focus = Get(results["thesis"].metadata, "summary", "")
              /\ memory.variables = Get(results["thesis"].metadata, "variables", EmptyDict)
        /\ "search" \in DOMAIN results =>
              memory.paper_count = Len(Get(results["search"].metadata, "papers", <<>>))

\* C25: after any sequence of saves the memory's keywords, focus and
\* variables are those of the thesis Output stored last (defaults where its
\* metadata lacks the key) and paper_count is the number of papers of the
\* search Output stored last; saving another agent's Output leaves the four
\* fields as they were
C25_MemoryFollowsLastOutputs ==
    [][(call'.op = "save_agent_result" /\ call'.session_id \in DOMAIN sessions) =>
          LET before == sessions[call'.session_id].session_memory
              after == sessions'[call'.session_id].session_memory
          IN  /\ MemoryFollowsResults(sessions'[call'.session_id])
              /\ call'.agent_name \notin {"thesis", "search"} =>
                    /\ after.keywords = before.keywords
                    /\ after.focus = before.focus
                    /\ after.variables = before.variables
                    /\ after.paper_count = before.paper_count]_vars

-----------------------------------------------------------------------------
(* The claim C26, under FallbackSpec *)

\* C26: when the literature-search request fails, the Search agent's
\* Output has an empty paper list in its metadata, confidence 0.3 and the
\* warning that no papers were found, as for a response without a match
C26_SearchFailureIsEmptyResult ==
    (last.shown = "output" /\ last.raised) =>
        LET out == last.out[1]
        IN  /\ "papers" \in DOMAIN out.metadata
            /\ out.metadata.papers = <<>>
            /\ out.confidence = 30
            /\ HasWarning(out, "No papers found for search terms")

-----------------------------------------------------------------------------
(* The claim C27, under RegistrySpec *)

\* C27: with one store instance and no failing write, after every
\* operation that changes the registry (create, save, update, delete,
\* import) sessions.json holds what the session map holds in memory, so that
\* a store constructed from the file has the same sessions, project links,
\* results and memory
C27_FileEqualsMemory ==
    /\ sessions_file = sessions
    /\ \A session_id \in DOMAIN sessions :
          /\ session_id \in DOMAIN sessions_file
          /\ \A field \in {"project_id", "agent_results", "session_memory"} :
                field \in DOMAIN sessions[session_id] =>
                   /\ field \in DOMAIN sessions_file[session_id]
                   /\ sessions_file[session_id][field] = sessions[session_id][field]

\* a session with a stored result was renamed, after another session had
\* been deleted, and the file holds the registry of the memory
C27_Witness ==
    /\ call.op = "update_session"
    /\ uuids = MaxSessions
    /\ Cardinality(DOMAIN sessions) < MaxSessions
    /\ \E session_id \in DOMAIN sessions :
          /\ sessions[session_id].title = "Renamed"
          /\ "file" \in DOMAIN sessions[session_id].agent_results
          /\ sessions_file[session_id] = sessions[session_id]

-----------------------------------------------------------------------------
(* The claim C28, under PipelineSpec *)

StoredPapers == Get(Get(Get(Results, "search", None), "metadata", EmptyDict), "papers", <<>>)

StoredSummaries ==
    Get(Get(Get(Results, "reader", None), "metadata", EmptyDict), "summaries", <<>>)

PositiveConfidence(agent_name) == Stored(agent_name) /\ Results[agent_name].confidence > 0

\* C28 as stated: in every reachable state, re-runs of earlier agents
\* included, a stored Reader Output of positive confidence comes with a
\* stored Search Output holding a paper, and a stored Trend Output of
\* positive confidence with a stored Reader Output holding a summary
C28_DownstreamImpliesUpstream ==
    /\ PositiveConfidence("reader") => Len(StoredPapers) >= 1
    /\ PositiveConfidence("trend") => Len(StoredSummaries) >= 1

\* C28 as it holds: a run of the Reader agent that returns an Output of
\* positive confidence starts from a stored Search Output holding a paper,
\* and such a run of the Trend agent from a stored Reader Output holding a
\* summary; the stored Outputs are not revised when an earlier agent is
\* run again
C28_PrerequisiteHeldWhenRun ==
    [][(last' # last /\ last'.shown = "output" /\ last'.out[1].confidence > 0) =>
          /\ last'.agent = "reader" => Len(StoredPapers) >= 1
          /\ last'.agent = "trend" => Len(StoredSummaries) >= 1]_vars

\* the Trend agent has just returned an Output of positive confidence, on
\* Reader and Search Outputs of positive confidence
C28_Witness ==
    /\ LastRan("trend")
    /\ last.shown = "output"
    /\ LastOut.confidence > 0
    /\ PositiveConfidence("reader")
    /\ Len(StoredSummaries) >= 1
    /\ Len(StoredPapers) >= 1

-----------------------------------------------------------------------------
(* The claim C30, under ImportSpec *)

\* the agents marked "completed" in the session memory's progress map
Completed(session) ==
    {agent_name \in DOMAIN session.session_memory.agent_progress :
        session.session_memory.agent_progress[agent_name] = "completed"}

\* create_session made the session: it alone links a project
CreatedByCreateSession(session) == "project_id" \in DOMAIN session

\* C30: for every session made by create_session and changed only by
\* save_agent_result, the agents marked completed in its memory are the keys
\* of its result map, zero-confidence fallbacks included
C30_ProgressMatchesResults ==
    \A session_id \in DOMAIN sessions :
       CreatedByCreateSession(sessions[session_id]) =>
          Completed(sessions[session_id]) = DOMAIN sessions[session_id].agent_results

====
